---------------------------- MODULE Spec2Model ----------------------------
(***************************************************************************)
(* Model of chirp_z_transform.py: circulant_multiply, toeplitz_multiply_e, *)
(* czt and iczt.                                                           *)
(*                                                                         *)
(* Arithmetic.  The program computes with complex numbers.  Every formula  *)
(* in it is built from +, -, *, /, integer powers, powers of W with        *)
(* exponent e/2 and the discrete Fourier transform, so it is meaningful    *)
(* over any field that has the roots of unity the transform needs.  The    *)
(* model evaluates the same formulas exactly in the prime field of order   *)
(* P: a number is a residue in 0..P-1, exp(-2 pi i / n) is a fixed         *)
(* primitive n-th root of unity Omega(n), and np.power(W, e/2) is          *)
(* Sqrt(W)^e for a fixed square root of W (the principal branch:           *)
(* np.power(W, e/2) = exp((e/2) log W) = (exp(log(W)/2))^e).  Rounding is  *)
(* not modelled.  A quotient by zero is not an error in numpy: it yields a *)
(* non-finite value, represented by NaN (inf+nanj, unequal to itself) or   *)
(* Inf (inf+infj, equal to itself), whichever the caller of iczt draws.    *)
(***************************************************************************)
EXTENDS Integers, Sequences, FiniteSets, TLC

VARIABLES op, args, ret

vars == <<op, args, ret>>

\* ------------------------------------------------------------------ bounds
\* Longest sequence (and largest M, N) a call is given.
MaxLen == 3

\* ------------------------------------------------------- complex arithmetic
\* Order of the field that stands for complex128 (prime; 240 = 2^4 * 3 * 5,
\* so transforms of length 1, 2, 3, 4, 5, 6, 8, 10, 12, 15, 16 exist).
P == 241

\* A generator of the multiplicative group of the field.
G == 7

\* Non-finite values (results of a division by zero and whatever they touch).
NaN == P
Inf == P + 1

\* a + b
Add(a, b) ==
    IF a = NaN \/ b = NaN THEN NaN
    ELSE IF a = Inf \/ b = Inf THEN Inf
    ELSE (a + b) % P

\* a - b
Sub(a, b) ==
    IF a = NaN \/ b = NaN THEN NaN
    ELSE IF a = Inf /\ b = Inf THEN NaN
    ELSE IF a = Inf \/ b = Inf THEN Inf
    ELSE (a - b) % P

\* a * b
Mul(a, b) ==
    IF a = NaN \/ b = NaN THEN NaN
    ELSE IF a = Inf \/ b = Inf THEN (IF a = 0 \/ b = 0 THEN NaN ELSE Inf)
    ELSE (a * b) % P

\* b^e for a finite non-zero b and an integer e >= 0, by repeated squaring.
RECURSIVE PowNat(_, _)
PowNat(b, e) ==
    IF e = 0 THEN 1
    ELSE LET h == PowNat(b, e \div 2)
             s == (h * h) % P
         IN  IF e % 2 = 1 THEN (s * b) % P ELSE s

\* 1 / b for a finite non-zero b.
Inverse(b) == PowNat(b, P - 2)

\* np.power(b, e) for a finite non-zero b and any integer e.
Pow(b, e) == IF e >= 0 THEN PowNat(b, e) ELSE PowNat(Inverse(b), -e)

\* a / b; nf is the non-finite value a zero divisor produces.
Div(a, b, nf) ==
    IF a = NaN \/ b = NaN THEN NaN
    ELSE IF b = Inf THEN (IF a = Inf THEN NaN ELSE 0)
    ELSE IF b = 0 THEN (IF a = 0 THEN NaN ELSE nf)
    ELSE IF a = Inf THEN Inf
    ELSE (a * Inverse(b)) % P

\* a != b as numpy evaluates it: a nan is unequal to everything.
Neq(a, b) == a = NaN \/ b = NaN \/ a # b

\* The square root of W that np.power(W, e/2) is a power of.
Sqrt(W) == CHOOSE v \in 1..(P - 1) : (v * v) % P = W

\* exp(-2 pi i / n): a primitive n-th root of unity (n divides P - 1).
Omega(n) == Pow(G, -((P - 1) \div n))

\* ------------------------------------------------------------ array helpers
\* Arrays are 1-based sequences: the program's a[k] is a[k + 1] here.
Zeros(n) == [k \in 1..n |-> 0]

\* (faulty variant: the reversal forgotten)
Flip_forgotten(a) == a

\* np.flip(a)
Flip(a) == [k \in 1..Len(a) |-> a[Len(a) + 1 - k]]

\* a[1:]
Rest(a) == IF Len(a) = 0 THEN <<>> ELSE Tail(a)

\* np.pad(a, (before, after), 'constant')
Pad(a, before, after) == Zeros(before) \o a \o Zeros(after)

\* Sum of f[lo] .. f[hi] with the arithmetic above.
RECURSIVE SumTo(_, _, _)
SumTo(f, lo, hi) == IF hi < lo THEN 0 ELSE Add(SumTo(f, lo, hi - 1), f[hi])

\* ---------------------------------------------------------------- scipy fft
\* y[k] = sum_j a[j] w^(jk) for the n-th root of unity w.
Twiddled(a, pw) ==
    [k \in 1..Len(a) |->
        SumTo([j \in 1..Len(a) |-> Mul(a[j], pw[((j - 1) * (k - 1)) % Len(a)])],
              1, Len(a))]

Dft(a, w) == Twiddled(a, [e \in 0..(Len(a) - 1) |-> Pow(w, e)])

\* scipy.fftpack.fft(a), len(a) >= 1
fft(a) == Dft(a, Omega(Len(a)))

\* (faulty variant: the inverse transform without its 1/n)
ifft_unscaled(a) == Dft(a, Inverse(Omega(Len(a))))

\* scipy.fftpack.ifft(a), len(a) >= 1:
\* a * s, elementwise
Scaled(a, s) == [k \in 1..Len(a) |-> Mul(a[k], s)]

ifft(a) == Scaled(Dft(a, Inverse(Omega(Len(a)))), Inverse(Len(a) % P))

\* ------------------------------------------------------------------ results
\* What a call leaves behind: the exception it raised ("none" when it returned),
\* the value it returned, the Toeplitz Multiply and Circulant Multiply
\* invocations made while it ran, in order, and (for iczt) the stages of the
\* function body that ran to completion.
Returned(v, tl, cl) ==
    [exc |-> "none", val |-> v, toep |-> tl, circ |-> cl, steps |-> <<>>]
Raised(e, tl, cl) ==
    [exc |-> e, val |-> <<>>, toep |-> tl, circ |-> cl, steps |-> <<>>]
After(steps, res) == [res EXCEPT !.steps = steps]

\* len(x) != len(c) (circulant_multiply's check)
GeneratorMismatch(x, c) == Len(x) # Len(c)

\* --------------------------------------------------------- circulant_multiply
\* a * b, elementwise
Hadamard(a, b) == [k \in 1..Len(a) |-> Mul(a[k], b[k])]

circulant_multiply(c, x) ==
    IF GeneratorMismatch(x, c)
    THEN Raised("LengthMismatch", <<>>, <<[c |-> c, x |-> x]>>)
    ELSE IF Len(c) = 0
    THEN Raised("ValueError", <<>>, <<[c |-> c, x |-> x]>>)
    ELSE Returned(ifft(Hadamard(fft(c), fft(x))), <<>>, <<[c |-> c, x |-> x]>>)

\* -------------------------------------------------------- toeplitz_multiply_e
\* (faulty variant: the logarithm rounded down)
RECURSIVE FloorLog2(_)
FloorLog2(k) == IF k <= 1 THEN 0 ELSE 1 + FloorLog2(k \div 2)

\* np.ceil(np.log2(k)) for k >= 1
RECURSIVE CeilLog2(_)
CeilLog2(k) == IF k <= 1 THEN 0 ELSE 1 + CeilLog2((k + 1) \div 2)

\* n = 2 ** ceil(log2(M + N - 1))
EmbeddingSize(M, N) == PowNat(2, CeilLog2(M + N - 1))

\* (faulty variant: the corner of r compared with the last entry of c)
CornerMismatch_last(r, c) == Neq(r[1], c[Len(c)])

\* r[0] != c[0]
CornerMismatch(r, c) == Neq(r[1], c[1])

\* (faulty variant: the vector measured against the column)
RowMismatch_column(x, r, c) == Len(x) # Len(c)

\* len(x) != len(r); c is not read
RowMismatch(x, r, c) == Len(x) # Len(r)

\* return Y[:M], after the call Y = circulant_multiply(C, X)
Truncate(Y, M, me) ==
    IF Y.exc # "none" THEN Raised(Y.exc, me, Y.circ)
    ELSE Returned(SubSeq(Y.val, 1, M), me, Y.circ)

\* C = (c[0], ..., c[M-1], 0, ..., 0, r[N-1], ..., r[1])
Generator(r, c, n) == Pad(c, 0, n - (Len(c) + Len(r) - 1)) \o Flip(Rest(r))

\* The body after the checks, for the embedding size n.
Embed(r, c, x, n, me) ==
    Truncate(circulant_multiply(Generator(r, c, n), Pad(x, 0, n - Len(r))),
             Len(c), me)

toeplitz_multiply_e(r, c, x) ==
    IF Len(r) = 0 \/ Len(c) = 0
    THEN Raised("IndexError", <<[r |-> r, c |-> c, x |-> x]>>, <<>>)
    ELSE IF CornerMismatch(r, c)
    THEN Raised("ToeplitzInvariantViolation", <<[r |-> r, c |-> c, x |-> x]>>, <<>>)
    ELSE IF RowMismatch(x, r, c)
    THEN Raised("LengthMismatch", <<[r |-> r, c |-> c, x |-> x]>>, <<>>)
    ELSE Embed(r, c, x, EmbeddingSize(Len(c), Len(r)), <<[r |-> r, c |-> c, x |-> x]>>)

\* ---------------------------------------------------------------------- czt
\* (faulty variant: e / 2 as an integer division)
HalfPow_floor(W, e) == Pow(W, e \div 2)

\* np.power(W, e / 2) for an integer e
HalfPow(W, e) == Pow(Sqrt(W), e)

\* The chirp W^(-k^2/2), k = 0..n-1: the first row r and the first column c.
Chirp(W, n) == [k \in 1..n |-> HalfPow(W, -((k - 1) * (k - 1)))]

\* X[k] = W^(k^2/2) * A^(-k) * x[k]
PreScale(x, W, A) ==
    [k \in 1..Len(x) |->
        Mul(Mul(HalfPow(W, (k - 1) * (k - 1)), Pow(A, -(k - 1))), x[k])]

\* X[k] = W^(k^2/2) * X[k] for k < M, after X = toeplitz_multiply_e(r, c, X)
PostScale(T, M, W) ==
    IF T.exc # "none" THEN T
    ELSE Returned([k \in 1..M |-> Mul(HalfPow(W, (k - 1) * (k - 1)), T.val[k])],
                  T.toep, T.circ)

czt(x, M, W, A) ==
    PostScale(toeplitz_multiply_e(Chirp(W, Len(x)), Chirp(W, M), PreScale(x, W, A)),
              M, W)

\* --------------------------------------------------------------------- iczt
\* p[k] (0-based): p[0] = 1, p[k] = p[k-1] * (W^k - 1)
RECURSIVE ChirpProduct(_, _)
ChirpProduct(W, k) ==
    IF k = 0 THEN 1 ELSE Mul(ChirpProduct(W, k - 1), Sub(Pow(W, k), 1))

\* (faulty variant: the alternating sign dropped)
Kernel_unsigned(W, n, k, nf) ==
    Div(HalfPow(W, 2 * k * k - (2 * n - 1) * k + n * (n - 1)),
        Mul(ChirpProduct(W, n - k - 1), ChirpProduct(W, k)), nf)

\* u[k] (0-based) of the kernel of length n
Kernel(W, n, k, nf) ==
    Mul(IF k % 2 = 0 THEN 1 ELSE P - 1,
        Div(HalfPow(W, 2 * k * k - (2 * n - 1) * k + n * (n - 1)),
            Mul(ChirpProduct(W, n - k - 1), ChirpProduct(W, k)), nf))

\* The log of an outer call after the log of the inner call it was given.
Joined(inner, outer) ==
    [outer EXCEPT !.toep = inner.toep \o outer.toep,
                  !.circ = inner.circ \o outer.circ]

\* toeplitz_multiply_e(r2, c2, inner), inner being a call's result.
Outer(r2, c2, inner) ==
    IF inner.exc # "none" THEN inner
    ELSE Joined(inner, toeplitz_multiply_e(r2, c2, inner.val))

\* The nested Toeplitz products of iczt: T(r2, c2, T(r1, c1, x)).
Nested(r2, c2, r1, c1, x) == Outer(r2, c2, toeplitz_multiply_e(r1, c1, x))

\* (faulty variant: the zero shifted in at the wrong end)
Uhat_trailing(u) == Pad(Flip(Rest(u)), 0, 1)

\* uhat = np.pad(np.flip(u[1:]), (1, 0), 'constant')
Uhat(u) == Pad(Flip(Rest(u)), 1, 0)

\* util = np.pad(u[:1], (0, n-1), 'constant')
Util(u, n) == Pad(SubSeq(u, 1, 1), 0, n - 1)

\* (faulty variant: only a shorter X rejected)
DimensionMismatch_shorter(X, N) == Len(X) < N

\* M != N with M = len(X)
DimensionMismatch(X, N) == Len(X) # N

\* x[k] = (xpp[k] - xp[k]) / u[0], then x[k] = A^k * W^(-k^2/2) * x[k]
Combine(xp, xpp, u0, n, W, A, nf) ==
    [k \in 1..n |->
        Mul(Mul(Pow(A, k - 1), HalfPow(W, -((k - 1) * (k - 1)))),
            Div(Sub(xpp[k], xp[k]), u0, nf))]

\* The end of iczt, xp and xpp being the results of the two nested products
\* (xpp is not computed when xp raised).
Finish(xp, xpp, u0, n, W, A, nf) ==
    IF xp.exc # "none" THEN After(<<"prescale", "p", "u", "aux">>, xp)
    ELSE IF xpp.exc # "none"
    THEN After(<<"prescale", "p", "u", "aux", "xp">>,
               Raised(xpp.exc, xp.toep \o xpp.toep, xp.circ \o xpp.circ))
    ELSE After(<<"prescale", "p", "u", "aux", "xp", "xpp", "combine", "postscale">>,
               Returned(Combine(xp.val, xpp.val, u0, n, W, A, nf),
                        xp.toep \o xpp.toep, xp.circ \o xpp.circ))

\* xp and xpp from the pre-scaled x and the kernel u and its companions.
Products(x, u, uhat, util, z, n, W, A, nf) ==
    Finish(Nested(z, uhat, uhat, z, x), Nested(util, u, u, util, x),
           u[1], n, W, A, nf)

\* The body of iczt from the kernel u on.
FromKernel(x, u, n, W, A, nf) ==
    Products(x, u, Uhat(u), Util(u, n), Zeros(n), n, W, A, nf)

\* x[k] = W^(-k^2/2) * X[k]
Unchirp(X, n, W) == [k \in 1..n |-> Mul(HalfPow(W, -((k - 1) * (k - 1))), X[k])]

iczt(X, N, W, A, nf) ==
    IF DimensionMismatch(X, N) THEN Raised("DimensionMismatch", <<>>, <<>>)
    ELSE IF N = 0 THEN After(<<"prescale">>, Raised("IndexError", <<>>, <<>>))
    ELSE FromKernel(Unchirp(X, N, W), [k \in 1..N |-> Kernel(W, N, k - 1, nf)],
                    N, W, A, nf)

\* ------------------------------------------------------------------- inputs
\* Sequences of length lo..hi over S.
SeqsOf(S, lo, hi) == UNION {[1..n -> S] : n \in lo..hi}

\* Entries of the sequences the calls are given.
Vals == {1, 3}
CircVals == {0, 1, 3}

\* W: 1, -1, a cube root of unity, a fourth root of unity, an element of
\* order 120.  A: 1 and an element of order 40.
WVals == {1, 240, 225, 64, 49}
AVals == {1, 5}

NoArgs ==
    [r |-> <<>>, c |-> <<>>, x |-> <<>>, X |-> <<>>, M |-> 0, N |-> 0,
     W |-> 0, A |-> 0, nf |-> 0, ofCzt |-> FALSE]
NoRet == Returned(<<>>, <<>>, <<>>)

\* -------------------------------------------------------------------- state
\* op: the function being called ("idle" between calls); args: what it was
\* given; ret: what it left behind.
Init ==
    /\ op = "idle"
    /\ args = NoArgs
    /\ ret = NoRet

CallCirculant ==
    /\ op = "idle"
    /\ \E c \in SeqsOf(CircVals, 0, MaxLen), x \in SeqsOf(CircVals, 0, MaxLen) :
        /\ op' = "circulant_multiply"
        /\ args' = [NoArgs EXCEPT !.c = c, !.x = x]
        /\ ret' = circulant_multiply(c, x)

CallToeplitz ==
    /\ op = "idle"
    /\ \E r \in SeqsOf(Vals, 0, MaxLen), c \in SeqsOf(Vals, 0, MaxLen),
          x \in SeqsOf(Vals, 0, MaxLen) :
        /\ op' = "toeplitz_multiply_e"
        /\ args' = [NoArgs EXCEPT !.r = r, !.c = c, !.x = x]
        /\ ret' = toeplitz_multiply_e(r, c, x)

CallCzt ==
    /\ op = "idle"
    /\ \E x \in SeqsOf(Vals, 0, MaxLen), M \in 0..MaxLen, W \in WVals, A \in AVals :
        /\ op' = "czt"
        /\ args' = [NoArgs EXCEPT !.x = x, !.M = M, !.W = W, !.A = A]
        /\ ret' = czt(x, M, W, A)

CallIczt ==
    /\ op = "idle"
    /\ \E X \in SeqsOf(Vals, 0, MaxLen), N \in 0..MaxLen, W \in WVals, A \in AVals,
          nf \in {NaN, Inf} :
        /\ op' = "iczt"
        /\ args' = [NoArgs EXCEPT !.X = X, !.N = N, !.W = W, !.A = A, !.nf = nf]
        /\ ret' = iczt(X, N, W, A, nf)

\* iczt(czt(x, M, W, A), len(x), W, A): the output of the czt call that just
\* returned is handed to iczt with the same W and A.
CallIcztOfCzt ==
    /\ op = "czt"
    /\ ret.exc = "none"
    /\ \E nf \in {NaN, Inf} :
        /\ op' = "iczt"
        /\ args' = [args EXCEPT !.X = ret.val, !.N = Len(args.x), !.nf = nf,
                                !.ofCzt = TRUE]
        /\ ret' = iczt(ret.val, Len(args.x), args.W, args.A, nf)

Done ==
    /\ op # "idle"
    /\ op' = "idle"
    /\ args' = NoArgs
    /\ ret' = NoRet

Next ==
    \/ CallCirculant
    \/ CallToeplitz
    \/ CallCzt
    \/ CallIczt
    \/ CallIcztOfCzt
    \/ Done

Spec == Init /\ [][Next]_vars

\* ------------------------------------------------------------------- claims
\* W^k != 1 for k in 1..n-1
Regular(W, n) == \A k \in 1..(n - 1) : Pow(W, k) # 1

\* The chirp z-transform by its definition: X[k] = sum_j x[j] A^(-j) W^(jk).
DirectCzt(x, M, W, A) ==
    [k \in 1..M |->
        SumTo([j \in 1..Len(x) |->
                  Mul(Mul(x[j], Pow(A, -(j - 1))), Pow(W, (j - 1) * (k - 1)))],
              1, Len(x))]

\* C1: czt on a non-empty x with M >= 1 returns exactly M entries,
\* X[k] = sum over j of x[j] * A^(-j) * W^(j*k).
C1_CztDefinition ==
    (op = "czt" /\ Len(args.x) >= 1 /\ args.M >= 1)
        => /\ ret.exc = "none"
           /\ Len(ret.val) = args.M
           /\ ret.val = DirectCzt(args.x, args.M, args.W, args.A)

C1_Witness ==
    /\ op = "czt"
    /\ Len(args.x) = 3
    /\ args.M = 2
    /\ args.W = 49
    /\ args.A = 5
    /\ ret.exc = "none"
    /\ ret.val = DirectCzt(args.x, 2, 49, 5)

\* C2: iczt(czt(x, N, W, A), N, W, A) = x for every x of length N >= 1
\* whenever W^k != 1 for k in 1..N-1.
C2_RoundTrip ==
    (op = "iczt" /\ args.ofCzt /\ args.M = Len(args.x) /\ Len(args.x) >= 1
        /\ Regular(args.W, Len(args.x)))
        => /\ ret.exc = "none"
           /\ ret.val = args.x

C2_Witness ==
    /\ op = "iczt"
    /\ args.ofCzt
    /\ args.M = 3
    /\ args.x = <<1, 3, 3>>
    /\ args.W = 49
    /\ args.A = 5
    /\ args.X # args.x
    /\ ret.val = args.x

\* The dense product with the Toeplitz matrix of first row r and first column c.
DenseToeplitz(r, c, x) ==
    [i \in 1..Len(c) |->
        SumTo([j \in 1..Len(r) |->
                  Mul(IF i >= j THEN c[i - j + 1] ELSE r[j - i + 1], x[j])],
              1, Len(r))]

\* C3: toeplitz_multiply_e(r, c, x) with r[0] = c[0] and len(x) = len(r) returns
\* the dense product T x, of length len(c), where T[i][j] = c[i-j] for i >= j
\* and r[j-i] for i < j.
C3_ToeplitzProduct ==
    (op = "toeplitz_multiply_e" /\ Len(args.r) >= 1 /\ Len(args.c) >= 1
        /\ args.r[1] = args.c[1] /\ Len(args.x) = Len(args.r))
        => /\ ret.exc = "none"
           /\ Len(ret.val) = Len(args.c)
           /\ ret.val = DenseToeplitz(args.r, args.c, args.x)

C3_Witness ==
    /\ op = "toeplitz_multiply_e"
    /\ args.r = <<1, 3, 1>>
    /\ args.c = <<1, 1, 3>>
    /\ args.x = <<3, 1, 3>>
    /\ ret.exc = "none"
    /\ ret.val = DenseToeplitz(args.r, args.c, args.x)

\* The dense product with the circulant matrix generated by c.
DenseCirculant(c, x) ==
    LET n == Len(c)
    IN  [i \in 1..n |->
            SumTo([j \in 1..n |-> Mul(c[((i - j) % n) + 1], x[j])], 1, n)]

\* C4: circulant_multiply(c, x) with len(c) = len(x) = n >= 1 returns n entries,
\* y[i] = sum over j of c[(i - j) mod n] * x[j]; for x = (1, 0, ..., 0) it is c.
C4_CirculantProduct ==
    (op = "circulant_multiply" /\ Len(args.c) = Len(args.x) /\ Len(args.c) >= 1)
        => /\ ret.exc = "none"
           /\ Len(ret.val) = Len(args.c)
           /\ ret.val = DenseCirculant(args.c, args.x)
           /\ (args.x = <<1>> \o Zeros(Len(args.c) - 1) => ret.val = args.c)

C4_Witness ==
    /\ op = "circulant_multiply"
    /\ args.c = <<1, 3, 0>>
    /\ args.x = <<1, 0, 0>>
    /\ ret.val = <<1, 3, 0>>

\* C5: czt with an empty input or with M = 0, and iczt with an empty X and
\* N = 0, return an empty sequence and raise nothing.
C5_DegenerateLengths ==
    /\ (op = "czt" /\ (Len(args.x) = 0 \/ args.M = 0))
            => (ret.exc = "none" /\ ret.val = <<>>)
    /\ (op = "iczt" /\ Len(args.X) = 0 /\ args.N = 0)
            => (ret.exc = "none" /\ ret.val = <<>>)

\* C6: iczt with len(X) != N raises DimensionMismatch before any stage of the
\* body has run, before any Toeplitz Multiply call and with no output; with
\* len(X) = N >= 1 it never raises DimensionMismatch.
C6_DimensionMismatch ==
    op = "iczt" =>
        /\ Len(args.X) # args.N =>
              /\ ret.exc = "DimensionMismatch"
              /\ ret.steps = <<>>
              /\ ret.toep = <<>>
              /\ ret.circ = <<>>
              /\ ret.val = <<>>
        /\ (Len(args.X) = args.N /\ args.N >= 1) => ret.exc # "DimensionMismatch"

C6_Witness ==
    /\ op = "iczt"
    /\ Len(args.X) = 2
    /\ args.N = 3
    /\ ret.exc = "DimensionMismatch"

\* C7: toeplitz_multiply_e with non-empty r and c and r[0] != c[0] raises
\* ToeplitzInvariantViolation whatever the length of x, calls Circulant Multiply
\* not at all and returns nothing; with r[0] = c[0] it never raises it.
C7_ToeplitzInvariant ==
    (op = "toeplitz_multiply_e" /\ Len(args.r) >= 1 /\ Len(args.c) >= 1) =>
        /\ args.r[1] # args.c[1] =>
              /\ ret.exc = "ToeplitzInvariantViolation"
              /\ ret.circ = <<>>
              /\ ret.val = <<>>
        /\ args.r[1] = args.c[1] => ret.exc # "ToeplitzInvariantViolation"

C7_Witness ==
    /\ op = "toeplitz_multiply_e"
    /\ args.r = <<1, 3>>
    /\ args.c = <<3, 3, 1>>
    /\ Len(args.x) = 3
    /\ ret.exc = "ToeplitzInvariantViolation"

\* C8 as stated: every call with len(x) != len(c) (circulant_multiply) or
\* len(x) != len(r) (toeplitz_multiply_e) raises LengthMismatch and has no
\* output.
C8_LengthMismatch_AsStated ==
    /\ (op = "circulant_multiply" /\ Len(args.x) # Len(args.c))
            => (ret.exc = "LengthMismatch" /\ ret.val = <<>>)
    /\ (op = "toeplitz_multiply_e" /\ Len(args.x) # Len(args.r))
            => (ret.exc = "LengthMismatch" /\ ret.val = <<>>)

\* C8 amended: circulant_multiply with len(x) != len(c) raises LengthMismatch
\* and has no output; so does toeplitz_multiply_e with len(x) != len(r), given
\* non-empty r and c with r[0] = c[0] (the corner check comes first), and then
\* without calling Circulant Multiply.
C8_LengthMismatch ==
    /\ (op = "circulant_multiply" /\ Len(args.x) # Len(args.c))
            => (ret.exc = "LengthMismatch" /\ ret.val = <<>>)
    /\ (op = "toeplitz_multiply_e" /\ Len(args.x) # Len(args.r)
            /\ Len(args.r) >= 1 /\ Len(args.c) >= 1 /\ args.r[1] = args.c[1])
            => (ret.exc = "LengthMismatch" /\ ret.val = <<>> /\ ret.circ = <<>>)

C8_Witness ==
    /\ op = "toeplitz_multiply_e"
    /\ args.r = <<3, 1>>
    /\ args.c = <<3, 1, 1>>
    /\ Len(args.x) = 3
    /\ ret.exc = "LengthMismatch"

IsPowerOfTwo(n) == \E e \in 0..n : PowNat(2, e) = n

\* C9: in toeplitz_multiply_e the embedding size n is the smallest power of two
\* >= M + N - 1 (n = 1 for M = N = 1), the circulant generator and the padded
\* vector have length n, and the pad counts n - (M + N - 1) and n - N are >= 0.
C9_EmbeddingSize ==
    (op = "toeplitz_multiply_e" /\ ret.circ # <<>>) =>
        LET N == Len(args.r)
            M == Len(args.c)
            n == EmbeddingSize(M, N)
        IN  /\ IsPowerOfTwo(n)
            /\ n >= M + N - 1
            /\ n > 1 => (n \div 2) < M + N - 1
            /\ (M = 1 /\ N = 1) => n = 1
            /\ n - (M + N - 1) >= 0
            /\ n - N >= 0
            /\ Len(ret.circ[1].c) = n
            /\ Len(ret.circ[1].x) = n

C9_Witness ==
    /\ op = "toeplitz_multiply_e"
    /\ Len(args.r) = 3
    /\ Len(args.c) = 3
    /\ ret.circ # <<>>
    /\ Len(ret.circ[1].c) = 8

\* Every Toeplitz Multiply call of the log was given r[0] = c[0] and a vector
\* as long as r; every Circulant Multiply call a vector as long as its generator.
LowerLayersSatisfied ==
    /\ \A i \in 1..Len(ret.toep) :
          /\ ~Neq(ret.toep[i].r[1], ret.toep[i].c[1])
          /\ Len(ret.toep[i].x) = Len(ret.toep[i].r)
    /\ \A i \in 1..Len(ret.circ) : Len(ret.circ[i].x) = Len(ret.circ[i].c)

\* C10: czt with N >= 1 and M >= 1 makes one Toeplitz Multiply call, with
\* r[0] = c[0] = 1; iczt with len(X) = N >= 1 and W^k != 1 for k in 1..N-1
\* makes four, on (uhat, z), (z, uhat), (u, util), (util, u), with
\* uhat[0] = 0 = z[0] and util[0] = u[0]; each gets a vector as long as r, each
\* Circulant Multiply call equal lengths, and neither ToeplitzInvariantViolation
\* nor LengthMismatch comes out of czt or iczt.
C10_PreconditionsMet ==
    /\ (op = "czt" /\ Len(args.x) >= 1 /\ args.M >= 1) =>
          /\ Len(ret.toep) = 1
          /\ Len(ret.circ) = 1
          /\ ret.toep[1].r[1] = 1
          /\ ret.toep[1].c[1] = 1
          /\ LowerLayersSatisfied
          /\ ret.exc \notin {"ToeplitzInvariantViolation", "LengthMismatch"}
    /\ (op = "iczt" /\ Len(args.X) = args.N /\ args.N >= 1
            /\ Regular(args.W, args.N)) =>
          /\ Len(ret.toep) = 4
          /\ Len(ret.circ) = 4
          /\ ret.toep[1].c = Zeros(args.N)
          /\ ret.toep[2].r = Zeros(args.N)
          /\ ret.toep[1].r = ret.toep[2].c
          /\ ret.toep[1].r[1] = 0
          /\ ret.toep[3].r = ret.toep[4].c
          /\ ret.toep[3].c = ret.toep[4].r
          /\ ret.toep[3].c = Util(ret.toep[3].r, args.N)
          /\ LowerLayersSatisfied
          /\ ret.exc \notin {"ToeplitzInvariantViolation", "LengthMismatch"}

C10_Witness ==
    /\ op = "iczt"
    /\ args.N = 3
    /\ Len(args.X) = 3
    /\ Regular(args.W, 3)
    /\ Len(ret.toep) = 4
    /\ ret.toep[1].r[2] # 0
    /\ ret.exc = "none"

=============================================================================
